---- MODULE Spec2Model ----
(***************************************************************************)
(* Model of helix-view/src/register.rs: the register store `Registers`.   *)
(*                                                                         *)
(* A string is a sequence of characters, a character a one-token string   *)
(* ("LF" and "CR" are the line feed and the carriage return).  A           *)
(* Vec<String> is a sequence of strings.  An Option is a record            *)
(* [some, vals]; a Result<()> is "Ok" or "Err".                            *)
(***************************************************************************)
EXTENDS Integers, Sequences, FiniteSets

VARIABLES
    inner,              \* Registers::inner: register name -> Vec<String>, as stored
    clipboard_provider, \* the text each external clipboard holds, by ClipboardType
    line_ending,        \* NATIVE_LINE_ENDING of this build
    editor,             \* the live editor context read() borrows
    done,               \* the operation just performed: its arguments and returns
    before,             \* inner and clipboard_provider as they were before it
    pushed,             \* per plain register: the values pushed since it was last undefined
    steps               \* number of steps taken so far

vars == <<inner, clipboard_provider, line_ending, editor, done, before, pushed, steps>>

\* ---------------------------------------------------------------- bounds
MaxSteps == 3      \* steps per behaviour
MaxSelections == 12  \* most selections of the view, where they are counted

\* ---------------------------------------------------------------- strings
LF == <<"LF">>
CRLF == <<"CR", "LF">>

Reverse(s) == [i \in 1..Len(s) |-> s[Len(s) + 1 - i]]

\* str::starts_with
StartsWith(s, p) == Len(p) <= Len(s) /\ SubSeq(s, 1, Len(p)) = p

\* &s[n..]
Skip(s, n) == SubSeq(s, n + 1, Len(s))

\* [String]::join(sep)
RECURSIVE Join(_, _)
Join(values, sep) ==
    IF values = <<>> THEN <<>>
    ELSE IF Len(values) = 1 THEN values[1]
    ELSE values[1] \o sep \o Join(Tail(values), sep)

Digit(d) == <<"0", "1", "2", "3", "4", "5", "6", "7", "8", "9">>[d + 1]

\* usize::to_string
RECURSIVE to_string(_)
to_string(n) ==
    IF n < 10 THEN <<Digit(n)>> ELSE to_string(n \div 10) \o <<Digit(n % 10)>>

\* Position of the first line feed of s, 0 when there is none.
RECURSIVE FindLF(_, _)
FindLF(s, i) ==
    IF i > Len(s) THEN 0 ELSE IF s[i] = "LF" THEN i ELSE FindLF(s, i + 1)

\* s.lines().next(): nothing for the empty string; otherwise the text before the
\* first "\n", without the "\r" that may precede it.
FirstLine(s) ==
    IF s = <<>> THEN [some |-> FALSE, val |-> <<>>]
    ELSE LET p == FindLF(s, 1) IN
         IF p = 0 THEN [some |-> TRUE, val |-> s]
         ELSE IF p > 1 /\ s[p - 1] = "CR" THEN [some |-> TRUE, val |-> SubSeq(s, 1, p - 2)]
         ELSE [some |-> TRUE, val |-> SubSeq(s, 1, p - 1)]

\* ---------------------------------------------------------------- options
None == [some |-> FALSE, vals |-> <<>>]
Some(values) == [some |-> TRUE, vals |-> values]

\* HashMap::get
Get(map, name) == IF name \in DOMAIN map THEN Some(map[name]) ELSE None

\* HashMap::insert
Insert(map, name, values) ==
    [n \in DOMAIN map \cup {name} |-> IF n = name THEN values ELSE map[n]]

\* HashMap::remove
Without(map, name) == [n \in DOMAIN map \ {name} |-> map[n]]

EmptyMap == [n \in {} |-> <<>>]

\* ---------------------------------------------------------------- clipboard capability
ClipboardType == {"Clipboard", "Selection"}

\* The match on the name sending '+' to the system clipboard as well.
TypeOf_system_only(name) == "Clipboard"

TypeOf(name) == IF name = "*" THEN "Clipboard" ELSE "Selection"

\* ClipboardProvider::get_contents: the text of the clipboard, or a failure.
get_contents(provider, clipboard_type, ok) ==
    IF ok THEN [ok |-> TRUE, contents |-> provider[clipboard_type]]
    ELSE [ok |-> FALSE, contents |-> <<>>]

\* ClipboardProvider::set_contents: the call replaces the text, or fails and
\* leaves it.
set_contents(provider, contents, clipboard_type, ok) ==
    IF ok THEN [ok |-> TRUE, provider |-> [provider EXCEPT ![clipboard_type] = contents]]
    ELSE [ok |-> FALSE, provider |-> provider]

\* ---------------------------------------------------------------- reconciliation
\* The for loop of contents_are_saved over the values after the first.
RECURSIVE SavedLoop(_, _, _, _)
SavedLoop(values, i, contents, le) ==
    IF i > Len(values) THEN TRUE
    ELSE IF StartsWith(contents, le) /\ StartsWith(Skip(contents, Len(le)), values[i])
         THEN SavedLoop(values, i + 1, Skip(contents, Len(le) + Len(values[i])), le)
         ELSE FALSE

contents_are_saved(saved_values, contents, le) ==
    LET values == Reverse(saved_values) IN
    IF values # <<>> /\ StartsWith(contents, values[1])
    THEN SavedLoop(values, 2, Skip(contents, Len(values[1])), le)
    ELSE FALSE

\* read_from_clipboard handing out the saved values when the fetch fails.
read_from_clipboard_saved_on_error(provider, saved_values, clipboard_type, le, get_ok) ==
    LET got == get_contents(provider, clipboard_type, get_ok) IN
    IF got.ok
    THEN IF ~saved_values.some THEN <<got.contents>>
         ELSE IF contents_are_saved(saved_values.vals, got.contents, le)
              THEN Reverse(saved_values.vals)
              ELSE <<got.contents>>
    ELSE IF saved_values.some THEN Reverse(saved_values.vals) ELSE <<>>

\* The sequence the returned iterator yields.  saved_values is the Option
\* self.inner.get(&name).
read_from_clipboard(provider, saved_values, clipboard_type, le, get_ok) ==
    LET got == get_contents(provider, clipboard_type, get_ok) IN
    IF got.ok
    THEN IF ~saved_values.some THEN <<got.contents>>
         ELSE IF contents_are_saved(saved_values.vals, got.contents, le)
              THEN Reverse(saved_values.vals)
              ELSE <<got.contents>>
    ELSE <<>>

\* ---------------------------------------------------------------- register names
Plain == {"a", "b"}
Computed == {"#", ".", "%"}
Clipboards == {"*", "+"}
Special == {"_"} \cup Computed \cup Clipboards
Names == Plain \cup Special

\* The texts of the fixed summaries and of SCRATCH_BUFFER_NAME, each written as
\* one token.
EMPTY == <<"<empty>">>
SCRATCH_BUFFER_NAME == <<"[scratch]">>

FixedPreviews ==
    << <<"_", EMPTY>>,
       <<"#", <<"<selection indices>">> >>,
       <<".", <<"<selection contents>">> >>,
       <<"%", <<"<document path>">> >>,
       <<"*", <<"<system clipboard>">> >>,
       <<"+", <<"<primary clipboard>">> >> >>

\* ---------------------------------------------------------------- Registers
\* self is [inner, clipboard_provider]; ed is the Editor: [selections, path],
\* selections the text under each selection of the current view, in order.

Registers(map, provider) == [inner |-> map, clipboard_provider |-> provider]

\* read numbering the selections from 0 (the + 1 of line 57 is lost).
read_indices_from_zero(self, name, ed, le, get_ok) ==
    CASE name = "_" -> Some(<<>>)
      [] name = "#" -> Some([i \in 1..Len(ed.selections) |-> to_string(i - 1)])
      [] name = "." -> Some(ed.selections)
      [] name = "%" -> Some(<<IF ed.path.some THEN ed.path.val ELSE SCRATCH_BUFFER_NAME>>)
      [] name \in Clipboards ->
            Some(read_from_clipboard(self.clipboard_provider, Get(self.inner, name),
                                     TypeOf(name), le, get_ok))
      [] OTHER ->
            LET values == Get(self.inner, name) IN
            IF values.some THEN Some(Reverse(values.vals)) ELSE None

\* Registers::read: the Option of the sequence the iterator yields.
read(self, name, ed, le, get_ok) ==
    CASE name = "_" -> Some(<<>>)
      [] name = "#" -> Some([i \in 1..Len(ed.selections) |-> to_string((i - 1) + 1)])
      [] name = "." -> Some(ed.selections)
      [] name = "%" -> Some(<<IF ed.path.some THEN ed.path.val ELSE SCRATCH_BUFFER_NAME>>)
      [] name \in Clipboards ->
            Some(read_from_clipboard(self.clipboard_provider, Get(self.inner, name),
                                     TypeOf(name), le, get_ok))
      [] OTHER ->
            LET values == Get(self.inner, name) IN
            IF values.some THEN Some(Reverse(values.vals)) ELSE None

\* A Result<()> and the store after the call; calls counts the calls made on
\* the clipboard capability.
Returned(res, map, provider, calls) ==
    [res |-> res, self |-> Registers(map, provider), calls |-> calls]

\* The plain arm with the reverse of line 110 lost.
write_plain_unreversed(self, name, values) ==
    Returned("Ok", Insert(self.inner, name, values), self.clipboard_provider, 0)

\* The plain arm dropping the entry when it is given no values.
write_plain_empty_undefines(self, name, values) ==
    IF values = <<>>
    THEN Returned("Ok", Without(self.inner, name), self.clipboard_provider, 0)
    ELSE Returned("Ok", Insert(self.inner, name, Reverse(values)), self.clipboard_provider, 0)

\* Registers::write, the arm of a plain register.
write_plain(self, name, values) ==
    Returned("Ok", Insert(self.inner, name, Reverse(values)), self.clipboard_provider, 0)

\* The clipboard arm caching the values before set_contents is tried.
write_clipboard_cache_first(self, name, values, le, set_ok) ==
    LET set == set_contents(self.clipboard_provider, Join(values, le), TypeOf(name), set_ok)
    IN  Returned(IF set.ok THEN "Ok" ELSE "Err",
                 Insert(self.inner, name, Reverse(values)), set.provider, 1)

\* The clipboard arm joining the values after they were reversed for storage.
write_clipboard_joins_stored(self, name, values, le, set_ok) ==
    LET set == set_contents(self.clipboard_provider, Join(Reverse(values), le),
                            TypeOf(name), set_ok)
    IN  IF ~set.ok
        THEN Returned("Err", self.inner, set.provider, 1)
        ELSE Returned("Ok", Insert(self.inner, name, Reverse(values)), set.provider, 1)

\* Registers::write, the arm of '*' and '+'.
write_clipboard(self, name, values, le, set_ok) ==
    LET set == set_contents(self.clipboard_provider, Join(values, le), TypeOf(name), set_ok)
    IN  IF ~set.ok
        THEN Returned("Err", self.inner, set.provider, 1)
        ELSE Returned("Ok", Insert(self.inner, name, Reverse(values)), set.provider, 1)

\* write without the arm that rejects '#', '.' and '%'.
write_computed_stored(self, name, values, le, set_ok) ==
    CASE name = "_" -> Returned("Ok", self.inner, self.clipboard_provider, 0)
      [] name \in Clipboards -> write_clipboard(self, name, values, le, set_ok)
      [] OTHER -> write_plain(self, name, values)

\* Registers::write: the Result and the store after the call.
write(self, name, values, le, set_ok) ==
    CASE name = "_" -> Returned("Ok", self.inner, self.clipboard_provider, 0)
      [] name \in Computed -> Returned("Err", self.inner, self.clipboard_provider, 0)
      [] name \in Clipboards -> write_clipboard(self, name, values, le, set_ok)
      [] OTHER -> write_plain(self, name, values)

\* The plain arm putting the value at the front of the stored Vec.
push_plain_front(self, name, value) ==
    LET entry == IF name \in DOMAIN self.inner THEN self.inner[name] ELSE <<>> IN
    Returned("Ok", Insert(self.inner, name, <<value>> \o entry), self.clipboard_provider, 0)

\* The plain arm replacing the newest stored value instead of adding one.
push_plain_replacing(self, name, value) ==
    LET entry == IF name \in DOMAIN self.inner THEN self.inner[name] ELSE <<>>
        kept == IF entry = <<>> THEN <<>> ELSE SubSeq(entry, 1, Len(entry) - 1)
    IN  Returned("Ok", Insert(self.inner, name, Append(kept, value)),
                 self.clipboard_provider, 0)

\* Registers::push, the arm of a plain register.
push_plain(self, name, value) ==
    LET entry == IF name \in DOMAIN self.inner THEN self.inner[name] ELSE <<>> IN
    Returned("Ok", Insert(self.inner, name, Append(entry, value)), self.clipboard_provider, 0)

\* The clipboard arm returning the error of a failed fetch at once, before
\* set_contents is called.
push_clipboard_fetch_or_fail(self, name, value, le, get_ok, set_ok) ==
    LET clipboard_type == TypeOf(name)
        collected == read_from_clipboard(self.clipboard_provider, Get(self.inner, name),
                                         clipboard_type, le, get_ok)
        values == Append(Reverse(collected), value)
        set == set_contents(self.clipboard_provider, Join(values, le), clipboard_type, set_ok)
    IN  IF ~get_ok THEN Returned("Err", self.inner, self.clipboard_provider, 1)
        ELSE IF ~set.ok
        THEN Returned("Err", self.inner, set.provider, 2)
        ELSE Returned("Ok", Insert(self.inner, name, Reverse(values)), set.provider, 2)

\* Registers::push, the arm of '*' and '+'.
push_clipboard(self, name, value, le, get_ok, set_ok) ==
    LET clipboard_type == TypeOf(name)
        collected == read_from_clipboard(self.clipboard_provider, Get(self.inner, name),
                                         clipboard_type, le, get_ok)
        values == Append(Reverse(collected), value)
        set == set_contents(self.clipboard_provider, Join(values, le), clipboard_type, set_ok)
    IN  IF ~set.ok
        THEN Returned("Err", self.inner, set.provider, 2)
        ELSE Returned("Ok", Insert(self.inner, name, Reverse(values)), set.provider, 2)

\* push without the arm that discards what is pushed to '_'.
push_black_hole_stored(self, name, value, le, get_ok, set_ok) ==
    CASE name \in Computed -> Returned("Err", self.inner, self.clipboard_provider, 0)
      [] name \in Clipboards -> push_clipboard(self, name, value, le, get_ok, set_ok)
      [] OTHER -> push_plain(self, name, value)

\* Registers::push: the Result and the store after the call.
push(self, name, value, le, get_ok, set_ok) ==
    CASE name = "_" -> Returned("Ok", self.inner, self.clipboard_provider, 0)
      [] name \in Computed -> Returned("Err", self.inner, self.clipboard_provider, 0)
      [] name \in Clipboards -> push_clipboard(self, name, value, le, get_ok, set_ok)
      [] OTHER -> push_plain(self, name, value)

\* Registers::first: the Option of one fragment.
first(self, name, ed, le, get_ok) ==
    LET values == read(self, name, ed, le, get_ok) IN
    IF values.some /\ values.vals # <<>> THEN Some(<<values.vals[1]>>) ELSE None

\* Registers::last: the Option of one fragment.
last(self, name, ed, le, get_ok) ==
    LET values == read(self, name, ed, le, get_ok) IN
    IF values.some /\ values.vals # <<>>
    THEN Some(<<values.vals[Len(values.vals)]>>) ELSE None

\* The closure taking the first element of the stored Vec instead of its last.
preview_of_stored_first(values) ==
    IF values = <<>> THEN EMPTY
    ELSE LET line == FirstLine(values[1]) IN
         IF line.some THEN line.val ELSE EMPTY

\* The closure of iter_preview's map: Vec::last, then the first line.
preview_of(values) ==
    IF values = <<>> THEN EMPTY
    ELSE LET line == FirstLine(values[Len(values)]) IN
         IF line.some THEN line.val ELSE EMPTY

\* The stored entries of iter_preview, in the order the HashMap iterates them
\* (order lists the keys of inner).
RECURSIVE stored_previews(_, _, _)
stored_previews(self, order, i) ==
    IF i > Len(order) THEN <<>>
    ELSE (IF order[i] \in Clipboards THEN <<>>
          ELSE << <<order[i], preview_of(self.inner[order[i]])>> >>)
         \o stored_previews(self, order, i + 1)

\* iter_preview without the filter of line 163 that leaves '*' and '+' out of
\* the stored entries.
iter_preview_unfiltered(self, order) ==
    [i \in 1..Len(order) |-> <<order[i], preview_of(self.inner[order[i]])>>]
    \o FixedPreviews

\* Registers::iter_preview: the pairs the iterator yields.
iter_preview(self, order) == stored_previews(self, order, 1) \o FixedPreviews

\* clear dropping the plain entries only.
clear_plain_only(self) ==
    Registers([n \in DOMAIN self.inner \cap Clipboards |-> self.inner[n]],
              self.clipboard_provider)

\* Registers::clear
clear(self) == Registers(EmptyMap, self.clipboard_provider)

\* remove without the arm that refuses the special names.
remove_any(self, name) ==
    [res |-> name \in DOMAIN self.inner,
     self |-> Registers(Without(self.inner, name), self.clipboard_provider)]

\* remove refusing only the computed registers and the black hole, so that it
\* drops the cache of '*' and '+'.
remove_clipboard_cache(self, name) ==
    IF name \in Computed \cup {"_"} THEN [res |-> FALSE, self |-> self]
    ELSE [res |-> name \in DOMAIN self.inner,
          self |-> Registers(Without(self.inner, name), self.clipboard_provider)]

\* Registers::remove: the bool and the store after the call.
remove(self, name) ==
    IF name \in Special THEN [res |-> FALSE, self |-> self]
    ELSE [res |-> name \in DOMAIN self.inner,
          self |-> Registers(Without(self.inner, name), self.clipboard_provider)]

\* ---------------------------------------------------------------- inputs
\* The fragments the command layer passes, the texts another process leaves
\* on a clipboard, and the editor contexts.
Fragments == {<<>>, <<"b">>}

\* The Vec<String> arguments of write: empty, of one fragment, of two, and
\* with a fragment that holds a line ending.
Values(le) ==
    {<<>>,
     << <<"a">> >>,
     << <<"a">>, <<"b">> >>,
     << <<"a">> \o le \o <<"b">>, <<"b">> >>}

RECURSIVE SeqsUpTo(_, _)
SeqsUpTo(S, n) ==
    IF n = 0 THEN {<<>>}
    ELSE LET shorter == SeqsUpTo(S, n - 1) IN
         shorter \cup {Append(s, x) : s \in shorter, x \in S}

ExternalTexts(le) ==
    {<<"a">>, <<"z">>, <<"a">> \o le \o <<"b">>, <<"a">> \o le \o <<"b">> \o <<"z">>}

\* The editor of a new session: a scratch buffer with one selection.
NewEditor == [selections |-> << <<>> >>, path |-> [some |-> FALSE, val |-> <<>>]]

Editors ==
    {NewEditor,
     [selections |-> <<>>, path |-> [some |-> FALSE, val |-> <<>>]],
     [selections |-> << <<"a">>, <<"b">>, <<"a">> >>,
      path |-> [some |-> TRUE, val |-> <<"p">>]]}

\* The outcomes of the clipboard calls an operation on name makes: each call
\* succeeds or fails; an operation that makes no call has one outcome.
Outcomes(name) == IF name \in Clipboards THEN BOOLEAN ELSE {TRUE}

\* The orders in which a HashMap with these keys may iterate.
RECURSIVE Orders(_)
Orders(keys) ==
    IF keys = {} THEN {<<>>}
    ELSE UNION {{<<k>> \o o : o \in Orders(keys \ {k})} : k \in keys}

NoOp ==
    [op |-> "new", name |-> "_", values |-> <<>>, res |-> "-", out |-> None,
     preview |-> <<>>, calls |-> 0, get_ok |-> TRUE, set_ok |-> TRUE]

Self == Registers(inner, clipboard_provider)

\* ---------------------------------------------------------------- state machine
\* Registers::default, in an editor session whose clipboards are empty.
Init ==
    /\ inner = EmptyMap
    /\ clipboard_provider = [t \in ClipboardType |-> <<>>]
    /\ line_ending \in {LF, CRLF}
    /\ editor = NewEditor
    /\ done = NoOp
    /\ before = Self
    /\ pushed = [c \in Plain |-> Some(<<>>)]
    /\ steps = 0

Step ==
    /\ steps < MaxSteps
    /\ steps' = steps + 1
    /\ before' = Self
    /\ UNCHANGED line_ending

Read ==
    /\ Step
    /\ \E name \in Names : \E get_ok \in Outcomes(name) :
          done' = [NoOp EXCEPT !.op = "read", !.name = name, !.get_ok = get_ok,
                       !.out = read(Self, name, editor, line_ending, get_ok),
                       !.calls = IF name \in Clipboards THEN 1 ELSE 0]
    /\ UNCHANGED <<inner, clipboard_provider, editor, pushed>>

First ==
    /\ Step
    /\ \E name \in Names : \E get_ok \in Outcomes(name) :
          done' = [NoOp EXCEPT !.op = "first", !.name = name, !.get_ok = get_ok,
                       !.out = first(Self, name, editor, line_ending, get_ok),
                       !.calls = IF name \in Clipboards THEN 1 ELSE 0]
    /\ UNCHANGED <<inner, clipboard_provider, editor, pushed>>

Last ==
    /\ Step
    /\ \E name \in Names : \E get_ok \in Outcomes(name) :
          done' = [NoOp EXCEPT !.op = "last", !.name = name, !.get_ok = get_ok,
                       !.out = last(Self, name, editor, line_ending, get_ok),
                       !.calls = IF name \in Clipboards THEN 1 ELSE 0]
    /\ UNCHANGED <<inner, clipboard_provider, editor, pushed>>

Write ==
    /\ Step
    /\ \E name \in Names, values \in Values(line_ending) :
       \E set_ok \in Outcomes(name) :
          LET r == write(Self, name, values, line_ending, set_ok) IN
          /\ inner' = r.self.inner
          /\ clipboard_provider' = r.self.clipboard_provider
          /\ done' = [NoOp EXCEPT !.op = "write", !.name = name, !.values = values,
                          !.set_ok = set_ok, !.res = r.res, !.calls = r.calls]
          /\ pushed' = IF name \in Plain THEN [pushed EXCEPT ![name] = None] ELSE pushed
    /\ UNCHANGED editor

Push ==
    /\ Step
    /\ \E name \in Names, value \in Fragments :
       \E get_ok \in Outcomes(name), set_ok \in Outcomes(name) :
          LET r == push(Self, name, value, line_ending, get_ok, set_ok) IN
          /\ inner' = r.self.inner
          /\ clipboard_provider' = r.self.clipboard_provider
          /\ done' = [NoOp EXCEPT !.op = "push", !.name = name, !.values = <<value>>,
                          !.get_ok = get_ok, !.set_ok = set_ok, !.res = r.res,
                          !.calls = r.calls]
          /\ pushed' = IF name \in Plain /\ pushed[name].some
                       THEN [pushed EXCEPT ![name] = Some(Append(pushed[name].vals, value))]
                       ELSE pushed
    /\ UNCHANGED editor

IterPreview ==
    /\ Step
    /\ \E order \in Orders(DOMAIN inner) :
          done' = [NoOp EXCEPT !.op = "iter_preview",
                       !.preview = iter_preview(Self, order)]
    /\ UNCHANGED <<inner, clipboard_provider, editor, pushed>>

Clear ==
    /\ Step
    /\ inner' = clear(Self).inner
    /\ clipboard_provider' = clear(Self).clipboard_provider
    /\ done' = [NoOp EXCEPT !.op = "clear"]
    /\ pushed' = [c \in Plain |-> Some(<<>>)]
    /\ UNCHANGED editor

Remove ==
    /\ Step
    /\ \E name \in Names :
          LET r == remove(Self, name) IN
          /\ inner' = r.self.inner
          /\ clipboard_provider' = r.self.clipboard_provider
          /\ done' = [NoOp EXCEPT !.op = "remove", !.name = name,
                          !.res = IF r.res THEN "true" ELSE "false"]
          /\ pushed' = IF name \in Plain THEN [pushed EXCEPT ![name] = Some(<<>>)]
                       ELSE pushed
    /\ UNCHANGED editor

\* Another process replaces the text of a clipboard.
ClipboardChanged ==
    /\ Step
    /\ \E t \in ClipboardType, text \in ExternalTexts(line_ending) :
          clipboard_provider' = [clipboard_provider EXCEPT ![t] = text]
    /\ done' = [NoOp EXCEPT !.op = "external"]
    /\ UNCHANGED <<inner, editor, pushed>>

\* The user changes the selections or switches document.
EditorChanged ==
    /\ Step
    /\ editor' \in Editors \ {editor}
    /\ done' = [NoOp EXCEPT !.op = "editor"]
    /\ UNCHANGED <<inner, clipboard_provider, pushed>>

Next ==
    \/ Read
    \/ First
    \/ Last
    \/ Write
    \/ Push
    \/ IterPreview
    \/ Clear
    \/ Remove
    \/ ClipboardChanged
    \/ EditorChanged

Spec == Init /\ [][Next]_vars

\* ---------------------------------------------------------------- properties
\* What read yields now and what it yielded before the operation just done,
\* every clipboard call succeeding.
ReadNow(name) == read(Self, name, editor, line_ending, TRUE)
ReadBefore(name) == read(before, name, editor, line_ending, TRUE)

Did(op, names) == done.op = op /\ done.name \in names

\* C1: after write(c, vs) on a plain register c, read(c) yields exactly vs, in
\* the same order, whatever c held before.
C1_WriteThenRead ==
    (Did("write", Plain) /\ done.res = "Ok") => ReadNow(done.name) = Some(done.values)

\* C1 witness: a write of several distinct fragments over an entry that held
\* something else.
C1_Witness ==
    /\ Did("write", Plain) /\ done.res = "Ok"
    /\ Len(done.values) >= 2 /\ done.values # Reverse(done.values)
    /\ done.name \in DOMAIN before.inner
    /\ before.inner[done.name] # inner[done.name]

\* C2 as stated: read(c) after push(c, v) on a plain register yields the
\* sequence read before followed by v, and pushes v1..vN onto an undefined
\* register read back as [v1..vN].
C2_PushAppends ==
    /\ (Did("push", Plain) /\ done.res = "Ok") =>
          ReadNow(done.name) = Some(ReadBefore(done.name).vals \o done.values)
    /\ \A c \in Plain :
          (pushed[c].some /\ pushed[c].vals # <<>>) => ReadNow(c) = Some(pushed[c].vals)

\* C2 amended: read(c) after push(c, v) on a plain register yields v followed
\* by the sequence read before (empty when c was undefined), and pushes v1..vN
\* onto an undefined register read back as [vN..v1].
C2_PushPrepends ==
    /\ (Did("push", Plain) /\ done.res = "Ok") =>
          ReadNow(done.name) = Some(done.values \o ReadBefore(done.name).vals)
    /\ \A c \in Plain :
          (pushed[c].some /\ pushed[c].vals # <<>>) =>
              ReadNow(c) = Some(Reverse(pushed[c].vals))

\* C2 witness: a push onto a register that read as something else than the
\* pushed value, and two different values pushed onto an undefined register.
C2_Witness ==
    /\ Did("push", Plain) /\ done.res = "Ok"
    /\ ReadBefore(done.name).some
    /\ ReadBefore(done.name).vals \o done.values # done.values \o ReadBefore(done.name).vals
    /\ pushed[done.name].some /\ Len(pushed[done.name].vals) = 2

Kind(name) == clipboard_provider[TypeOf(name)]

\* The cached fragments of a clipboard register, oldest first.
Cached(name) == Reverse(inner[name])

\* C3 as stated: after a successful write(name, vs) on a clipboard register,
\* read(name) yields exactly vs and the external clipboard holds vs joined
\* with the native line ending, for vs of any length.
C3_ClipboardRoundTrip ==
    (Did("write", Clipboards) /\ done.res = "Ok") =>
        /\ ReadNow(done.name) = Some(done.values)
        /\ Kind(done.name) = Join(done.values, line_ending)

\* C4 as stated: with a cached sequence, read yields one fragment, the raw
\* external text, for every external text other than the cached fragments
\* joined with the native line ending.
C4_CacheOnlyOnExactMatch ==
    \A name \in Clipboards \cap DOMAIN inner :
        Kind(name) # Join(Cached(name), line_ending) =>
            ReadNow(name) = Some(<<Kind(name)>>)

\* C5 as stated: if read(name) on a clipboard register would yield E before a
\* successful push(name, v), then afterwards the external clipboard holds E
\* followed by v, joined, and read(name) yields E followed by v.
C5_ClipboardPushAppends ==
    (Did("push", Clipboards) /\ done.res = "Ok" /\ done.get_ok) =>
        LET E == ReadBefore(done.name).vals IN
        /\ Kind(done.name) = Join(E \o done.values, line_ending)
        /\ ReadNow(done.name) = Some(E \o done.values)

\* The store is as it was before the operation just done: every entry and both
\* external clipboards.
NothingChanged ==
    inner = before.inner /\ clipboard_provider = before.clipboard_provider

\* C6: when set_contents fails during write or push on '*' or '+', the call
\* returns the failure, and the cache of that register, every other entry
\* and both external clipboards are as before the call.
C6_FailedSetHasNoEffect ==
    (done.op \in {"write", "push"} /\ done.name \in Clipboards /\ ~done.set_ok) =>
        done.res = "Err" /\ NothingChanged

\* C6 witness: a failed write of values that differ from the cache the
\* register holds and from the text on its clipboard.
C6_Witness ==
    /\ Did("write", Clipboards) /\ ~done.set_ok /\ done.res = "Err"
    /\ done.name \in DOMAIN before.inner
    /\ before.inner[done.name] # Reverse(done.values)
    /\ before.clipboard_provider[TypeOf(done.name)] # Join(done.values, line_ending)

\* C7: write and push on '#', '.' and '%' return an error and change neither
\* the stored mapping nor a clipboard; read on these names yields what it
\* yields on an empty store whose clipboard cannot be fetched, so it depends
\* on the editor alone.
C7_ComputedRegisters ==
    /\ (done.op \in {"write", "push"} /\ done.name \in Computed) =>
          done.res = "Err" /\ NothingChanged
    /\ \A name \in Computed :
          ReadNow(name) =
              read(Registers(EmptyMap, [t \in ClipboardType |-> <<>>]), name, editor,
                   line_ending, FALSE)

\* C7 witness: a write of fragments to a computed register of a store that
\* holds a plain entry, in an editor with three selections.
C7_Witness ==
    /\ Did("write", Computed) /\ done.values # <<>>
    /\ DOMAIN inner \cap Plain # {}
    /\ Len(editor.selections) = 3

\* C8: read('_') is always a present sequence of length zero; write and push
\* on '_' succeed and change nothing, and no entry for '_' is ever stored.
C8_BlackHole ==
    /\ \A get_ok \in BOOLEAN : read(Self, "_", editor, line_ending, get_ok) = Some(<<>>)
    /\ "_" \notin DOMAIN inner
    /\ (done.op \in {"write", "push"} /\ done.name = "_") =>
          done.res = "Ok" /\ NothingChanged

\* C8 witness: a non-empty fragment pushed to '_' on a store that holds
\* entries.
C8_Witness ==
    /\ Did("push", {"_"}) /\ done.values # << <<>> >>
    /\ DOMAIN inner # {}

\* C9: remove(c) returns true exactly when c is a plain register with a
\* stored entry; afterwards read(c) of a plain c yields no value; every other
\* entry and both clipboards are unchanged; on a special name it returns
\* false and changes nothing.
C9_Remove ==
    Did("remove", Names) =>
        /\ done.res = "true" <=> (done.name \in Plain /\ done.name \in DOMAIN before.inner)
        /\ done.name \in Plain => ReadNow(done.name) = None
        /\ \A n \in Names \ {done.name} : Get(inner, n) = Get(before.inner, n)
        /\ clipboard_provider = before.clipboard_provider
        /\ done.name \in Special => done.res = "false" /\ inner = before.inner

\* C9 witness: a defined plain register removed from a store that holds
\* another entry.
C9_Witness ==
    /\ Did("remove", Plain) /\ done.res = "true"
    /\ ReadBefore(done.name).some /\ ReadBefore(done.name).vals # <<>>
    /\ DOMAIN inner # {}

\* C10: after clear() no entry is stored: preview yields the six fixed
\* summaries and nothing else, read of every plain name yields no value, read
\* of '*' and '+' yields the one raw external text, and the external
\* clipboards are as before.
C10_Clear ==
    done.op = "clear" =>
        /\ inner = EmptyMap
        /\ \A order \in Orders(DOMAIN inner) : iter_preview(Self, order) = FixedPreviews
        /\ \A c \in Plain : ReadNow(c) = None
        /\ \A name \in Clipboards : ReadNow(name) = Some(<<Kind(name)>>)
        /\ clipboard_provider = before.clipboard_provider

\* C10 witness: clear on a store that held a plain entry and a clipboard
\* cache of two fragments that read did yield.
C10_Witness ==
    /\ done.op = "clear"
    /\ DOMAIN before.inner \cap Plain # {}
    /\ \E name \in Clipboards \cap DOMAIN before.inner :
          Len(ReadBefore(name).vals) = 2

\* The summaries preview lists under a name, when the HashMap iterates in order.
Summaries(name, order) ==
    LET pairs == iter_preview(Self, order) IN
    {pairs[i][2] : i \in {j \in 1..Len(pairs) : pairs[j][1] = name}}

\* The first line of an optional fragment, or the fixed empty marker.
LineOrEmpty(fragment) ==
    IF ~fragment.some THEN EMPTY
    ELSE LET line == FirstLine(fragment.vals[1]) IN
         IF line.some THEN line.val ELSE EMPTY

\* C11 as stated: the preview summary of every defined plain register c is
\* the first line of the fragment last(c) returns, or the empty marker.
C11_PreviewOfLast ==
    \A c \in Plain \cap DOMAIN inner : \A order \in Orders(DOMAIN inner) :
        Summaries(c, order) = {LineOrEmpty(last(Self, c, editor, line_ending, TRUE))}

\* C11 amended: the preview summary of every defined plain register c is the
\* first line of the fragment first(c) returns (the first element of read(c),
\* the most recently pushed one), or the empty marker when there is no such
\* line.
C11_PreviewOfFirst ==
    \A c \in Plain \cap DOMAIN inner : \A order \in Orders(DOMAIN inner) :
        Summaries(c, order) = {LineOrEmpty(first(Self, c, editor, line_ending, TRUE))}

\* C11 witness: a plain register, written and then pushed to, whose first and
\* last fragments have different first lines, in a store with another entry.
C11_Witness ==
    /\ Did("push", Plain) /\ ~pushed[done.name].some
    /\ Len(ReadNow(done.name).vals) >= 3
    /\ LineOrEmpty(first(Self, done.name, editor, line_ending, TRUE))
         # LineOrEmpty(last(Self, done.name, editor, line_ending, TRUE))
    /\ Cardinality(DOMAIN inner) >= 2

\* C12: read yields no value exactly for a plain name without a stored entry;
\* for the six special names it yields a present sequence, and for '*' and '+'
\* a present empty one when the fetch of the clipboard fails, cached sequence
\* or not.
C12_ReadNone ==
    /\ \A name \in Names : \A get_ok \in BOOLEAN :
          ~read(Self, name, editor, line_ending, get_ok).some
              <=> (name \in Plain /\ name \notin DOMAIN inner)
    /\ \A name \in Clipboards : read(Self, name, editor, line_ending, FALSE) = Some(<<>>)
    /\ (done.op = "read" /\ done.name \in Clipboards /\ ~done.get_ok) =>
          done.out = Some(<<>>)

\* C12 witness: a read of a clipboard register whose fetch failed, while the
\* register had cached fragments and its clipboard held text.
C12_Witness ==
    /\ Did("read", Clipboards) /\ ~done.get_ok
    /\ done.name \in DOMAIN inner /\ inner[done.name] # <<>>
    /\ Kind(done.name) # <<>>
    /\ \E c \in Plain : c \notin DOMAIN inner

Operations == {"read", "write", "push", "first", "last", "iter_preview", "clear", "remove"}

\* C13 as stated: every register operation makes at most one call on the
\* clipboard capability, get_contents and set_contents counted together.
C13_AtMostOneCall == done.op \in Operations => done.calls <= 1

\* C13 amended: push on '*' or '+' makes exactly two calls (get_contents, then
\* set_contents, whether or not the fetch succeeded); read, first, last and
\* write on '*' or '+' make exactly one; every other operation makes none.
C13_CallsPerOperation ==
    done.op \in Operations =>
        done.calls =
            IF done.op \in {"iter_preview", "clear", "remove"} \/ done.name \notin Clipboards
            THEN 0
            ELSE IF done.op = "push" THEN 2 ELSE 1

\* C13 witness: a push on a clipboard register whose fetch failed and whose
\* set succeeded.
C13_Witness ==
    /\ Did("push", Clipboards) /\ ~done.get_ok /\ done.res = "Ok"
    /\ done.calls = 2

\* ---------------------------------------------------------------- selection indices
\* A session whose view holds any number of selections, in which one write may
\* precede the read of '#'.
EditorWith(n) ==
    [selections |-> [i \in 1..n |-> <<"a">>], path |-> [some |-> FALSE, val |-> <<>>]]

InitIndices ==
    /\ inner = EmptyMap
    /\ clipboard_provider = [t \in ClipboardType |-> <<>>]
    /\ line_ending \in {LF, CRLF}
    /\ editor \in {EditorWith(n) : n \in 0..MaxSelections}
    /\ done = NoOp
    /\ before = Self
    /\ pushed = [c \in Plain |-> Some(<<>>)]
    /\ steps = 0

WriteOnce == steps = 0 /\ Write

ReadIndices ==
    /\ done.op # "read"
    /\ steps' = steps + 1
    /\ before' = Self
    /\ done' = [NoOp EXCEPT !.op = "read", !.name = "#",
                    !.out = read(Self, "#", editor, line_ending, TRUE)]
    /\ UNCHANGED <<inner, clipboard_provider, line_ending, editor, pushed>>

NextIndices == WriteOnce \/ ReadIndices

SpecIndices == InitIndices /\ [][NextIndices]_vars

DigitValue(c) == CHOOSE d \in 0..9 : Digit(d) = c

\* The number a string of decimal digits denotes.
RECURSIVE DecimalValue(_)
DecimalValue(s) ==
    IF s = <<>> THEN 0
    ELSE 10 * DecimalValue(SubSeq(s, 1, Len(s) - 1)) + DigitValue(s[Len(s)])

\* s is the decimal numeral of n: digits only, no leading zero, of value n.
IsDecimalOf(s, n) ==
    /\ s # <<>>
    /\ \A i \in 1..Len(s) : \E d \in 0..9 : s[i] = Digit(d)
    /\ Len(s) > 1 => s[1] # "0"
    /\ DecimalValue(s) = n

\* C14: with N selections in the current view, read('#') yields exactly N
\* fragments, the i-th the decimal numeral of i, whatever the store and the
\* clipboards hold and whether or not a clipboard could be fetched.
C14_SelectionIndices ==
    \A get_ok \in BOOLEAN :
        LET r == read(Self, "#", editor, line_ending, get_ok) IN
        /\ r.some
        /\ Len(r.vals) = Len(editor.selections)
        /\ \A i \in 1..Len(r.vals) : IsDecimalOf(r.vals[i], i)
        /\ Did("read", {"#"}) => done.out = r

\* C14 witness: '#' read with ten or more selections from a store that holds
\* an entry; the tenth fragment is "10".
C14_Witness ==
    /\ Did("read", {"#"})
    /\ Len(editor.selections) >= 10
    /\ done.out.vals[10] = <<"1", "0">>
    /\ DOMAIN inner # {}

\* ---------------------------------------------------------------- cache and clipboard
\* In the store self the cache of a clipboard register and its clipboard
\* agree: the external text is what read yields, joined, and read yields the
\* cached fragments when there are any.
InSync(self, name) ==
    LET values == read(self, name, editor, line_ending, TRUE).vals IN
    /\ self.clipboard_provider[TypeOf(name)] = Join(values, line_ending)
    /\ (name \in DOMAIN self.inner /\ self.inner[name] # <<>>) =>
          values = Reverse(self.inner[name])

\* The step just taken was another process giving the clipboard of this
\* register a different text.
ModifiedExternally(name) ==
    /\ done.op = "external"
    /\ clipboard_provider[TypeOf(name)] # before.clipboard_provider[TypeOf(name)]

\* C15: after every successful write or push on a clipboard register the
\* cache and the clipboard agree, and they go on agreeing through every step
\* that is not an external modification of that clipboard.
C15_CacheAndClipboardAgree ==
    /\ (done.op \in {"write", "push"} /\ done.name \in Clipboards /\ done.res = "Ok")
          => InSync(Self, done.name)
    /\ \A name \in Clipboards :
          (InSync(before, name) /\ ~ModifiedExternally(name)) => InSync(Self, name)

\* C15 witness: a read that yields the three or more cached fragments of a
\* clipboard register, written and pushed to before.
C15_Witness ==
    /\ Did("read", Clipboards) /\ done.get_ok
    /\ done.name \in DOMAIN inner
    /\ Len(done.out.vals) >= 3 /\ done.out = Some(Cached(done.name))
    /\ Kind(done.name) = Join(Cached(done.name), line_ending)

\* C16: a read never discards the cache. The cached sequence of a clipboard
\* register changes only in a successful write or push on that register or in
\* clear, and whenever the clipboard holds exactly the join of a non-empty
\* cache, after whatever texts it held in between, read yields the cached
\* fragments.
C16_DivergentReadKeepsCache ==
    \A name \in Clipboards :
       /\ Get(inner, name) # Get(before.inner, name) =>
             \/ done.op \in {"write", "push"} /\ done.name = name /\ done.res = "Ok"
             \/ done.op = "clear"
       /\ (name \in DOMAIN inner /\ inner[name] # <<>>
             /\ Kind(name) = Join(Cached(name), line_ending)) =>
             ReadNow(name) = Some(Cached(name))

\* C16 witness: the clipboard of a register caching two fragments or more held
\* a divergent text, which read yielded as one raw text, and has just been
\* given the join of the cache again; read yields the cached fragments.
C16_Witness ==
    \E name \in Clipboards :
       /\ done.op = "external"
       /\ name \in DOMAIN inner /\ Len(inner[name]) >= 2
       /\ inner = before.inner
       /\ ReadBefore(name) = Some(<<before.clipboard_provider[TypeOf(name)]>>)
       /\ ReadBefore(name) # Some(Cached(name))
       /\ Kind(name) = Join(Cached(name), line_ending)
       /\ ReadNow(name) = Some(Cached(name))

\* How many pairs of a preview carry the name.
Listed(pairs, name) == Cardinality({i \in 1..Len(pairs) : pairs[i][1] = name})

\* The fixed pair iter_preview chains for a special name.
FixedPreview(name) ==
    CHOOSE pair \in {FixedPreviews[i] : i \in 1..Len(FixedPreviews)} : pair[1] = name

\* C17: the stored mapping never holds an entry for '_', '#', '.' or '%', and
\* the preview lists every name at most once: each of the six special names
\* exactly once, with its fixed summary, each defined plain register exactly
\* once, and an undefined plain register not at all.
C17_PreviewListsOnce ==
    /\ DOMAIN inner \cap (Computed \cup {"_"}) = {}
    /\ \A order \in Orders(DOMAIN inner) :
          LET pairs == iter_preview(Self, order) IN
          /\ \A name \in Special :
                /\ Listed(pairs, name) = 1
                /\ \E i \in 1..Len(pairs) : pairs[i] = FixedPreview(name)
          /\ \A name \in Plain :
                Listed(pairs, name) = IF name \in DOMAIN inner THEN 1 ELSE 0

\* C17 witness: a preview was taken of a store that holds a plain register and
\* the cache of a clipboard register; it has the six fixed pairs and one more.
C17_Witness ==
    /\ done.op = "iter_preview"
    /\ DOMAIN inner \cap Plain # {} /\ DOMAIN inner \cap Clipboards # {}
    /\ Len(done.preview) = 6 + Cardinality(DOMAIN inner \cap Plain)
    /\ \A name \in DOMAIN inner \cap Clipboards : Listed(done.preview, name) = 1

\* The clipboard a clipboard register has nothing to do with: the primary
\* selection for '*', the system clipboard for '+'.
OtherClipboard(name) == IF name = "*" THEN "Selection" ELSE "Clipboard"
OwnClipboard(name) == IF name = "*" THEN "Clipboard" ELSE "Selection"

\* The store before the call with everything the register name should not
\* touch made different: the other clipboard holds text and every other entry
\* is gone.
Elsewhere(name, text) ==
    Registers([n \in DOMAIN before.inner \cap {name} |-> before.inner[n]],
              [before.clipboard_provider EXCEPT ![OtherClipboard(name)] = text])

\* The write or push just performed, performed on the store self instead.
Redo(self) ==
    IF done.op = "write"
    THEN write(self, done.name, done.values, line_ending, done.set_ok)
    ELSE push(self, done.name, done.values[1], line_ending, done.get_ok, done.set_ok)

\* C18: registers are independent. A write or push on '*' or '+' leaves the
\* other clipboard and every other entry as they were, and its result, its own
\* clipboard and its own cache come out the same when the other clipboard and
\* the other entries are different (it reads only its own); a write, push or
\* remove on a plain register makes no clipboard call, leaves both clipboards
\* as they were and changes no other entry.
C18_Independent ==
    /\ (done.op \in {"write", "push"} /\ done.name \in Clipboards) =>
          /\ clipboard_provider[OtherClipboard(done.name)]
                = before.clipboard_provider[OtherClipboard(done.name)]
          /\ \A n \in Names \ {done.name} : Get(inner, n) = Get(before.inner, n)
          /\ \A text \in ExternalTexts(line_ending) \cup {<<>>} :
                LET r == Redo(Elsewhere(done.name, text)) IN
                /\ r.res = done.res
                /\ r.self.clipboard_provider[OwnClipboard(done.name)]
                      = clipboard_provider[OwnClipboard(done.name)]
                /\ Get(r.self.inner, done.name) = Get(inner, done.name)
    /\ (done.op \in {"write", "push", "remove"} /\ done.name \in Plain) =>
          /\ done.calls = 0
          /\ clipboard_provider = before.clipboard_provider
          /\ \A n \in Names \ {done.name} : Get(inner, n) = Get(before.inner, n)

\* C18 witness: a successful push on '+' changed the primary selection while
\* '*' has a cache and the system clipboard a text of its own, and a plain
\* register is defined beside them.
C18_Witness ==
    /\ Did("push", {"+"}) /\ done.res = "Ok"
    /\ clipboard_provider["Selection"] # before.clipboard_provider["Selection"]
    /\ "*" \in DOMAIN inner /\ inner["*"] # <<>>
    /\ clipboard_provider["Clipboard"] # <<>>
    /\ clipboard_provider["Clipboard"] # clipboard_provider["Selection"]
    /\ DOMAIN inner \cap Plain # {}

\* C19: immediately after push(c, v) on a plain register c, v is what first(c)
\* returns and what the preview summarises, read(c) is one longer than before
\* (one long when c was undefined), and the elements after the first are the
\* sequence read before the push, in the same order.
C19_PushedIsFirst ==
    Did("push", Plain) =>
        LET c == done.name
            v == done.values[1]
            old == IF ReadBefore(c).some THEN ReadBefore(c).vals ELSE <<>>
            now == ReadNow(c)
        IN  /\ done.res = "Ok"
            /\ now.some
            /\ first(Self, c, editor, line_ending, TRUE) = Some(<<v>>)
            /\ now.vals[1] = v
            /\ Len(now.vals) = Len(old) + 1
            /\ Tail(now.vals) = old
            /\ \A order \in Orders(DOMAIN inner) :
                  Summaries(c, order) = {LineOrEmpty(Some(<<v>>))}

\* C19 witness: a push on a plain register that already read two different
\* fragments, the pushed one differing from the one that was first.
C19_Witness ==
    /\ Did("push", Plain)
    /\ ReadBefore(done.name).some /\ Len(ReadBefore(done.name).vals) >= 2
    /\ ReadBefore(done.name).vals[1] # ReadBefore(done.name).vals[2]
    /\ ReadBefore(done.name).vals[1] # done.values[1]
    /\ Len(ReadNow(done.name).vals) = 3

\* C20: writing the empty sequence to a plain register defines it. After
\* write(c, []), read(c) yields a present sequence of length zero, first(c)
\* and last(c) yield nothing, the preview lists c with the fixed empty marker,
\* and remove(c) returns true.
C20_EmptyWriteDefines ==
    (Did("write", Plain) /\ done.values = <<>>) =>
        LET c == done.name IN
        /\ done.res = "Ok"
        /\ ReadNow(c) = Some(<<>>)
        /\ ReadNow(c) # None
        /\ first(Self, c, editor, line_ending, TRUE) = None
        /\ last(Self, c, editor, line_ending, TRUE) = None
        /\ \A order \in Orders(DOMAIN inner) :
              /\ Listed(iter_preview(Self, order), c) = 1
              /\ Summaries(c, order) = {EMPTY}
        /\ remove(Self, c).res

\* C20 witness: the empty sequence was written to a plain register that held
\* fragments, beside another defined register.
C20_Witness ==
    /\ Did("write", Plain) /\ done.values = <<>>
    /\ ReadBefore(done.name).some /\ ReadBefore(done.name).vals # <<>>
    /\ Cardinality(DOMAIN inner) >= 2

====
